---- MODULE Spec2Model ----
(***************************************************************************)
(* Model of the streaming gateway of src/server.js: one Session per       *)
(* client socket (the closure of io.on("connection")), driven by client   *)
(* commands (start, audio, stop, disconnect), by the continuation of the  *)
(* awaited presign call, and by the callbacks of the upstream WebSocket   *)
(* (open, message, close, error).  Every handler runs to completion on    *)
(* the single event loop, so each handler is one action; the await in     *)
(* the start handler is the only point where a handler is suspended.      *)
(***************************************************************************)
EXTENDS Integers, Sequences, FiniteSets, TLC

(* ------------------------------ bounds -------------------------------- *)
\* accepted start commands per session (each one is a presign attempt)
MaxStarts == 2
\* upstream messages delivered per session
MaxMsgs == 1
\* upstream messages delivered to the relaying session of SpecRelay
RelayMsgs == 2
\* audio commands that reach ws.send in the session of SpecAudio
AudioChunks == 2
\* longest Transcript.Results list given to extractTranscriptParts in SpecExtract
MaxResults == 3
\* longest array value of a query parameter given to buildQueryString in SpecQuery
MaxVals == 2
\* audio commands that reach ws.send per session
MaxAudio == 1

(* --------------------------- program constants ------------------------ *)
DefaultSampleRate == 16000
CloseStop == 1000
CloseDisconnect == 1001

(* ----------------------------- JS values ------------------------------ *)
\* Values of the program are tagged, so that a test such as
\* messageType === "event" is defined whatever the value is.
NULL == [t |-> "null"]
UNDEF == [t |-> "undefined"]
Str(v) == [t |-> "string", v |-> v]
Num(v) == [t |-> "number", v |-> v]
Bool(v) == [t |-> "boolean", v |-> v]
Arr(v) == [t |-> "array", v |-> v]
Obj(v) == [t |-> "object", v |-> v]

Nullish(x) == x.t \in {"null", "undefined"}

\* the truthiness JS gives a value in a condition, in || and in !
Truthy(x) ==
    CASE x.t \in {"null", "undefined"} -> FALSE
      [] x.t = "string" -> x.v # ""
      [] x.t = "number" -> x.v # 0
      [] x.t = "boolean" -> x.v
      [] OTHER -> TRUE

\* o.k on a value that is neither null nor undefined
Get(o, k) == IF o.t = "object" /\ k \in DOMAIN o.v THEN o.v[k] ELSE UNDEF

\* o?.k
OptGet(o, k) == IF Nullish(o) THEN UNDEF ELSE Get(o, k)

\* a || b
Or(a, b) == IF Truthy(a) THEN a ELSE b

\* a ?? b
Coalesce(a, b) == IF Nullish(a) THEN b ELSE a

\* the characters of the strings the model iterates over or decodes
Chars(str) ==
    CASE str = "AAAA" -> <<"A", "A", "A", "A">>
      [] str = "AQID" -> <<"A", "Q", "I", "D">>
      [] str = "AQI=" -> <<"A", "Q", "I", "=">>
      [] str = "!!!!" -> <<"!", "!", "!", "!">>
      [] str = "ab" -> <<"a", "b">>
      [] OTHER -> <<>>

\* a[0] on a value that is neither null nor undefined
First(a) ==
    IF a.t = "array" /\ Len(a.v) > 0 THEN a.v[1]
    ELSE IF a.t = "string" /\ Len(Chars(a.v)) > 0 THEN Str(Chars(a.v)[1])
    ELSE UNDEF

(* ----------------------------- base64 --------------------------------- *)
B64Alphabet ==
    <<"A", "B", "C", "D", "E", "F", "G", "H", "I", "J", "K", "L", "M", "N", "O", "P",
      "Q", "R", "S", "T", "U", "V", "W", "X", "Y", "Z", "a", "b", "c", "d", "e", "f",
      "g", "h", "i", "j", "k", "l", "m", "n", "o", "p", "q", "r", "s", "t", "u", "v",
      "w", "x", "y", "z", "0", "1", "2", "3", "4", "5", "6", "7", "8", "9", "+", "/">>

IsB64(ch) == \E i \in DOMAIN B64Alphabet : B64Alphabet[i] = ch

Sextet(ch) == (CHOOSE i \in DOMAIN B64Alphabet : B64Alphabet[i] = ch) - 1

RECURSIVE Sextets(_)
\* the 6-bit values of the characters of the base64 alphabet, the others skipped
Sextets(cs) ==
    IF cs = <<>> THEN <<>>
    ELSE IF IsB64(Head(cs)) THEN <<Sextet(Head(cs))>> \o Sextets(Tail(cs))
    ELSE Sextets(Tail(cs))

RECURSIVE Octets(_)
\* four sextets make three bytes; a last group of two or three makes one or two
Octets(x) ==
    IF Len(x) < 2 THEN <<>>
    ELSE LET b1 == x[1] * 4 + (x[2] \div 16)
         IN IF Len(x) = 2 THEN <<b1>>
            ELSE LET b2 == (x[2] % 16) * 16 + (x[3] \div 4)
                 IN IF Len(x) = 3 THEN <<b1, b2>>
                    ELSE <<b1, b2, (x[3] % 4) * 64 + x[4]>>
                         \o Octets(SubSeq(x, 5, Len(x)))

\* Buffer.from(b64, "base64"): the bytes of a string, a TypeError for a value
\* that is neither a string nor a buffer nor an array
BufferFromBase64(b64) ==
    IF b64.t = "string" THEN [threw |-> FALSE, bytes |-> Octets(Sextets(Chars(b64.v)))]
    ELSE [threw |-> TRUE, bytes |-> <<>>]

(* --------------------------- event-stream codec ------------------------ *)
Header(name, value) == [name |-> name, type |-> "string", value |-> value]

\* marshaller.marshall(message): the frame carrying the headers and the body
marshall(message) ==
    [wire |-> "frame", headers |-> message.headers, body |-> message.body]

\* marshaller.unmarshall(data): throws on bytes that are no well-formed frame
unmarshall(data) ==
    IF data.wire = "frame"
    THEN [threw |-> FALSE, headers |-> data.headers, body |-> data.body]
    ELSE [threw |-> TRUE, headers |-> <<>>, body |-> ""]

\* headers[name]?.value
HeaderValue(headers, name) ==
    IF \E i \in DOMAIN headers : headers[i].name = name
    THEN Str(headers[CHOOSE i \in DOMAIN headers : headers[i].name = name].value)
    ELSE UNDEF

\* the AudioEvent message without its content type
AudioEvent_NoContentType(audioBytes) ==
    [headers |-> <<Header(":message-type", "event"),
                   Header(":event-type", "AudioEvent")>>,
     body |-> audioBytes]

\* the AudioEvent message the audio handler builds around the decoded bytes
AudioEvent(audioBytes) ==
    [headers |-> <<Header(":message-type", "event"),
                   Header(":event-type", "AudioEvent"),
                   Header(":content-type", "application/octet-stream")>>,
     body |-> audioBytes]

(* ------------------------- transcript payloads ------------------------ *)
\* one entry of Transcript.Results with a first alternative carrying `text`
Result(text, isPartial, startTime, endTime) ==
    Obj([Alternatives |-> Arr(<<Obj([Transcript |-> Str(text)])>>),
         IsPartial |-> isPartial, StartTime |-> startTime, EndTime |-> endTime])

\* an entry of Transcript.Results without the optional fields
BareResult(text) == Obj([Alternatives |-> Arr(<<Obj([Transcript |-> Str(text)])>>)])

TranscriptJson(results) == Obj([Transcript |-> Obj([Results |-> results])])

\* JSON.parse on the payload texts the model delivers; a SyntaxError on the rest
JsonParse(txt) ==
    CASE txt = "two-results" ->
            [threw |-> FALSE,
             value |-> TranscriptJson(Arr(<<Result("hello", Bool(TRUE), Num(0), Num(1)),
                                            BareResult("world")>>))]
      [] txt = "empty-text-between" ->
            [threw |-> FALSE,
             value |-> TranscriptJson(Arr(<<BareResult("a"), BareResult(""),
                                            Result("b", Bool(FALSE), Num(2), NULL)>>))]
      [] txt = "no-alternatives" ->
            [threw |-> FALSE,
             value |-> TranscriptJson(Arr(<<Obj([IsPartial |-> Bool(TRUE)]),
                                            Obj([Alternatives |-> Arr(<<>>)])>>))]
      [] txt = "null-entry" ->
            [threw |-> FALSE,
             value |-> TranscriptJson(Arr(<<BareResult("x"), NULL>>))]
      [] txt = "results-number" ->
            [threw |-> FALSE, value |-> TranscriptJson(Num(7))]
      [] txt = "results-string" ->
            [threw |-> FALSE, value |-> TranscriptJson(Str("ab"))]
      [] txt = "no-results" ->
            [threw |-> FALSE, value |-> Obj([Transcript |-> Obj([x |-> Num(1)])])]
      [] txt = "null" -> [threw |-> FALSE, value |-> NULL]
      [] OTHER -> [threw |-> TRUE, value |-> UNDEF]

\* parseJsonBody: the parsed payload, null when the text is not JSON
parseJsonBody(bodyBytes) ==
    LET parsed == JsonParse(bodyBytes)
    IN IF parsed.threw THEN NULL ELSE parsed.value

\* what `for (const r of results)` iterates over; a TypeError when not iterable
Iterate(results) ==
    CASE results.t = "array" -> [threw |-> FALSE, items |-> results.v]
      [] results.t = "string" ->
            [threw |-> FALSE,
             items |-> [i \in DOMAIN Chars(results.v) |-> Str(Chars(results.v)[i])]]
      [] OTHER -> [threw |-> TRUE, items |-> <<>>]

\* the body of the loop of extractTranscriptParts for one entry r:
\* a TypeError when r is null or undefined, else zero or one segment
ExtractOne(r) ==
    IF Nullish(r) THEN [threw |-> TRUE, out |-> <<>>]
    ELSE LET alts == Get(r, "Alternatives")
             alt == IF Truthy(alts) /\ Truthy(First(alts)) THEN First(alts) ELSE NULL
             text == Or(OptGet(alt, "Transcript"), Str(""))
         IN IF ~Truthy(text) THEN [threw |-> FALSE, out |-> <<>>]
            ELSE [threw |-> FALSE,
                  out |-> <<[text |-> text,
                             isPartial |-> Truthy(Get(r, "IsPartial")),
                             startTime |-> Coalesce(Get(r, "StartTime"), NULL),
                             endTime |-> Coalesce(Get(r, "EndTime"), NULL)]>>]

RECURSIVE ExtractLoop(_, _)
\* the loop over the entries: the segments pushed so far, until an entry throws
ExtractLoop(items, out) ==
    IF items = <<>> THEN [threw |-> FALSE, out |-> out]
    ELSE LET one == ExtractOne(Head(items))
         IN IF one.threw THEN [threw |-> TRUE, out |-> <<>>]
            ELSE ExtractLoop(Tail(items), out \o one.out)

\* extractTranscriptParts(json): the segments, or a thrown TypeError
extractTranscriptParts(json) ==
    LET results == Or(OptGet(OptGet(json, "Transcript"), "Results"), Arr(<<>>))
        it == Iterate(results)
    IN IF it.threw THEN [threw |-> TRUE, out |-> <<>>]
       ELSE ExtractLoop(it.items, <<>>)

VARIABLES
    sockets,      \* ids of the client sockets for which the connection handler ran
    connected,    \* connected[s]: the client socket has not fired "disconnect"
    credentials,  \* the environment holds AWS_ACCESS_KEY_ID and AWS_SECRET_ACCESS_KEY
    started,      \* started[s]: the closure variable `started`
    ws,           \* ws[s]: the closure variable `ws`, an index into conns[s], 0 for null
    conns,        \* conns[s]: every WebSocket the session created, in creation order
    pending,      \* pending[s]: start handlers suspended at the await of the presign
    quota,        \* quota[s]: accepted starts, upstream messages and sent chunks left,
                  \* and whether the history of the relay is recorded
    received,     \* received[s]: upstream messages delivered so far, in arrival order
    transcripts,  \* transcripts[s]: every "transcript" event emitted so far, in order
    emitted,      \* the socket.emit calls of the last handler, in order
    lastStatus,   \* lastStatus[s]: the state of the latest "status" event emitted to
                  \* s, "none" before the first; kept where the quota asks for it
    last          \* the event the last handler was run for

vars == <<sockets, connected, credentials, started, ws, conns, pending, quota,
          received, transcripts, emitted, lastStatus, last>>

(* ------------------------- client-facing events ----------------------- *)
StatusStarting(languageCode, sampleRate) ==
    [ev |-> "status", state |-> "starting", languageCode |-> languageCode,
     sampleRate |-> sampleRate]

StatusStreaming == [ev |-> "status", state |-> "streaming"]

StatusStopping == [ev |-> "status", state |-> "stopping"]

StatusEnded(code, reason) ==
    [ev |-> "status", state |-> "ended", code |-> code, reason |-> reason]

ErrorEvent(message) == [ev |-> "error", message |-> message]

TranscriptEvent(p) == [ev |-> "transcript", part |-> p]

\* String(e?.message || e): the text of a thrown or reported error
ErrorText(e) == <<e>>

MissingCredentials ==
    "Missing AWS_ACCESS_KEY_ID or AWS_SECRET_ACCESS_KEY in environment variables."

(* --------------------------- upstream WebSocket ----------------------- *)
\* new WebSocket(url): readyState CONNECTING, nothing sent, no close requested
\* (no handler reads the url again, so the connection does not record it)
NewWebSocket(url) ==
    [readyState |-> "CONNECTING", closeCode |-> 0, closeReason |-> "",
     failed |-> FALSE, sent |-> <<>>]

\* c.close(code, reason) on an open connection: the close frame is sent and the
\* connection is CLOSING until the peer answers
WsClose(c, code, reason) ==
    [c EXCEPT !.readyState = "CLOSING", !.closeCode = code, !.closeReason = reason]

\* ws && ws.readyState === WebSocket.OPEN
IsOpen(s) == ws[s] # 0 /\ conns[s][ws[s]].readyState = "OPEN"

\* the connection the session refers to, closed when it is open
CloseIfOpen(s, code, reason) ==
    IF IsOpen(s)
    THEN [conns EXCEPT ![s][ws[s]] = WsClose(conns[s][ws[s]], code, reason)]
    ELSE conns

(* ------------------------------- inputs ------------------------------- *)
StartMsgs ==
    {[languageCode |-> UNDEF, sampleRateHertz |-> UNDEF],
     [languageCode |-> Str("es-US"), sampleRateHertz |-> Num(8000)]}

AudioMsgs ==
    {[chunkBase64 |-> UNDEF], [chunkBase64 |-> Str("")], [chunkBase64 |-> Str("AAAA")],
     [chunkBase64 |-> Str("AQID")], [chunkBase64 |-> Num(5)]}

InboundFrame(messageType, eventType, body) ==
    marshall([headers |-> <<Header(":message-type", messageType),
                            Header(":event-type", eventType)>>,
              body |-> body])

\* what the upstream connection may deliver to the "message" handler
Inbound ==
    {[wire |-> "garbage", headers |-> <<>>, body |-> ""],
     InboundFrame("event", "TranscriptEvent", "two-results"),
     InboundFrame("event", "TranscriptEvent", "empty-text-between"),
     InboundFrame("event", "TranscriptEvent", "null-entry"),
     InboundFrame("event", "TranscriptEvent", "{not json"),
     InboundFrame("exception", "BadRequestException", "invalid sample rate"),
     marshall([headers |-> <<Header(":message-type", "exception")>>, body |-> "boom"]),
     InboundFrame("event", "OtherEvent", "two-results"),
     InboundFrame("ping", "TranscriptEvent", "two-results")}

\* the code and reason a "close" callback may be given
Closes == {[code |-> CloseStop, reason |-> Str("bye")],
           [code |-> 1006, reason |-> UNDEF]}
SocketErrors == {"ECONNRESET"}
SigningErrors == {"signing failed"}

\* the audio commands the client of session s sends: the non-empty string
\* chunks are those of its quota
AudioInputs(s) ==
    {msg \in AudioMsgs :
        (msg.chunkBase64.t = "string" /\ msg.chunkBase64.v # "")
            => msg.chunkBase64.v \in quota[s].chunks}

(* -------------------------------- Init -------------------------------- *)
\* the state right after the connection handler ran for the sockets of S
InitSessions(S, q) ==
    /\ sockets = S
    /\ connected = [s \in S |-> TRUE]
    /\ credentials \in BOOLEAN
    /\ started = [s \in S |-> FALSE]
    /\ ws = [s \in S |-> 0]
    /\ conns = [s \in S |-> <<>>]
    /\ pending = [s \in S |-> <<>>]
    /\ quota = [s \in S |-> q]
    /\ received = [s \in S |-> <<>>]
    /\ transcripts = [s \in S |-> <<>>]
    /\ lastStatus = [s \in S |-> "none"]
    /\ emitted = <<>>
    /\ last = [op |-> "connection"]

Init ==
    InitSessions({1}, [starts |-> MaxStarts, msgs |-> MaxMsgs, audio |-> MaxAudio,
                       log |-> FALSE, statuses |-> FALSE, chunks |-> {"AAAA"}])

Remove(seq, i) == SubSeq(seq, 1, i - 1) \o SubSeq(seq, i + 1, Len(seq))

(* --------------------------- client commands -------------------------- *)
\* socket.on("start") without its first line, `if (started) return`
start_NoGuard(s, msg) ==
    /\ connected[s]
    /\ quota[s].starts > 0
    /\ quota' = [quota EXCEPT ![s].starts = @ - 1]
    /\ started' = [started EXCEPT ![s] = TRUE]
    /\ emitted' = <<StatusStarting(Or(msg.languageCode, Str("en-US")).v,
                                   Or(msg.sampleRateHertz, Num(DefaultSampleRate)).v)>>
    /\ pending' = [pending EXCEPT ![s] =
           Append(@, [languageCode |-> Or(msg.languageCode, Str("en-US")).v,
                      sampleRate |-> Or(msg.sampleRateHertz, Num(DefaultSampleRate)).v,
                      mediaEncoding |-> "pcm"])]
    /\ last' = [op |-> "start", s |-> s, accepted |-> ~started[s]]
    /\ UNCHANGED <<sockets, connected, credentials, ws, conns, received, transcripts>>

\* socket.on("start")
start(s, msg) ==
    /\ connected[s]
    /\ IF started[s]
       THEN /\ emitted' = <<>>
            /\ last' = [op |-> "start", s |-> s, accepted |-> FALSE]
            /\ UNCHANGED <<started, pending, quota>>
       ELSE LET languageCode == Or(msg.languageCode, Str("en-US")).v
                sampleRate == Or(msg.sampleRateHertz, Num(DefaultSampleRate)).v
            IN /\ quota[s].starts > 0
               /\ quota' = [quota EXCEPT ![s].starts = @ - 1]
               /\ started' = [started EXCEPT ![s] = TRUE]
               /\ emitted' = <<StatusStarting(languageCode, sampleRate)>>
               /\ pending' = [pending EXCEPT ![s] =
                      Append(@, [languageCode |-> languageCode,
                                 sampleRate |-> sampleRate, mediaEncoding |-> "pcm"])]
               /\ last' = [op |-> "start", s |-> s, accepted |-> TRUE]
    /\ UNCHANGED <<sockets, connected, credentials, ws, conns, received, transcripts>>

\* the audio handler with an empty catch block
AudioOutcome_SilentBad(msg) ==
    LET b64 == msg.chunkBase64
        audioBytes == BufferFromBase64(b64)
    IN IF ~Truthy(b64) \/ audioBytes.threw THEN [kind |-> "dropped"]
       ELSE [kind |-> "sent", payload |-> marshall(AudioEvent(audioBytes.bytes))]

\* the outcome of the audio handler on its input, the connection being open
AudioOutcome(msg) ==
    LET b64 == msg.chunkBase64
        audioBytes == BufferFromBase64(b64)
    IN IF ~Truthy(b64) THEN [kind |-> "dropped"]
       ELSE IF audioBytes.threw THEN [kind |-> "bad"]
       ELSE [kind |-> "sent", payload |-> marshall(AudioEvent(audioBytes.bytes))]

\* socket.on("audio")
audio(s, msg) ==
    /\ connected[s]
    /\ LET r == IF IsOpen(s) THEN AudioOutcome(msg) ELSE [kind |-> "dropped"]
       IN /\ last' = [op |-> "audio", s |-> s, outcome |-> r.kind]
          /\ IF r.kind = "sent"
             THEN /\ quota[s].audio > 0
                  /\ quota' = [quota EXCEPT ![s].audio = @ - 1]
                  /\ conns' = [conns EXCEPT ![s][ws[s]].sent = Append(@, r.payload)]
             ELSE UNCHANGED <<quota, conns>>
          /\ emitted' = IF r.kind = "bad"
                        THEN <<ErrorEvent(<<"Bad audio chunk">>)>> ELSE <<>>
    /\ UNCHANGED <<sockets, connected, credentials, started, ws, pending, received,
                   transcripts>>

\* socket.on("stop") closing whatever `ws` refers to, without the readyState test
stop_NoStateTest(s) ==
    /\ connected[s]
    /\ conns' = IF ws[s] # 0
                THEN [conns EXCEPT ![s][ws[s]] = WsClose(@, CloseStop, "client stop")]
                ELSE conns
    /\ emitted' = <<StatusStopping>>
    /\ started' = [started EXCEPT ![s] = FALSE]
    /\ ws' = [ws EXCEPT ![s] = 0]
    /\ last' = [op |-> "stop", s |-> s]
    /\ UNCHANGED <<sockets, connected, credentials, pending, quota, received,
                   transcripts>>

\* socket.on("stop") with `started` and `ws` declared at module level, one
\* pair for all the sessions
stop_SharedState(s) ==
    /\ connected[s]
    /\ conns' = CloseIfOpen(s, CloseStop, "client stop")
    /\ emitted' = <<StatusStopping>>
    /\ started' = [t \in sockets |-> FALSE]
    /\ ws' = [t \in sockets |-> 0]
    /\ last' = [op |-> "stop", s |-> s]
    /\ UNCHANGED <<sockets, connected, credentials, pending, quota, received,
                   transcripts>>

\* socket.on("stop")
stop(s) ==
    /\ connected[s]
    /\ conns' = CloseIfOpen(s, CloseStop, "client stop")
    /\ emitted' = <<StatusStopping>>
    /\ started' = [started EXCEPT ![s] = FALSE]
    /\ ws' = [ws EXCEPT ![s] = 0]
    /\ last' = [op |-> "stop", s |-> s]
    /\ UNCHANGED <<sockets, connected, credentials, pending, quota, received,
                   transcripts>>

\* socket.on("disconnect") written like the stop handler
disconnect_LikeStop(s) ==
    /\ connected[s]
    /\ connected' = [connected EXCEPT ![s] = FALSE]
    /\ conns' = CloseIfOpen(s, CloseStop, "client stop")
    /\ emitted' = <<StatusStopping>>
    /\ last' = [op |-> "disconnect", s |-> s]
    /\ UNCHANGED <<sockets, credentials, started, ws, pending, quota, received,
                   transcripts>>

\* socket.on("disconnect")
disconnect(s) ==
    /\ connected[s]
    /\ connected' = [connected EXCEPT ![s] = FALSE]
    /\ conns' = CloseIfOpen(s, CloseDisconnect, "client disconnect")
    /\ emitted' = <<>>
    /\ last' = [op |-> "disconnect", s |-> s]
    /\ UNCHANGED <<sockets, credentials, started, ws, pending, quota, received,
                   transcripts>>

(* ------------------ the start handler after its await ------------------ *)
\* formatSignedUrl on the signed request of buildTranscribePresignedUrl
formatSignedUrl(attempt) ==
    [protocol |-> "wss:", port |-> 8443, path |-> "/stream-transcription-websocket",
     query |-> [languageCode |-> attempt.languageCode,
                mediaEncoding |-> attempt.mediaEncoding,
                sampleRate |-> attempt.sampleRate]]

\* the presign resolved: the handler creates the WebSocket, stores it in `ws`
\* and registers the four callbacks
presignResolved(s, i) ==
    /\ i \in DOMAIN pending[s]
    /\ credentials
    /\ pending' = [pending EXCEPT ![s] = Remove(@, i)]
    /\ conns' = [conns EXCEPT ![s] = Append(@, NewWebSocket(formatSignedUrl(pending[s][i])))]
    /\ ws' = [ws EXCEPT ![s] = Len(conns[s]) + 1]
    /\ emitted' = <<>>
    /\ last' = [op |-> "presignResolved", s |-> s, c |-> Len(conns[s]) + 1]
    /\ UNCHANGED <<sockets, connected, credentials, started, quota, received,
                   transcripts>>

\* the catch block of the start handler without `started = false`
presignRejected_KeepsStarted(s, i, e) ==
    /\ i \in DOMAIN pending[s]
    /\ credentials \/ e = MissingCredentials
    /\ ~credentials \/ e \in SigningErrors
    /\ pending' = [pending EXCEPT ![s] = Remove(@, i)]
    /\ emitted' = <<ErrorEvent(ErrorText(e))>>
    /\ ws' = [ws EXCEPT ![s] = 0]
    /\ last' = [op |-> "presignRejected", s |-> s]
    /\ UNCHANGED <<sockets, connected, credentials, started, conns, quota, received,
                   transcripts>>

\* the presign rejected (credentialsProvider threw, or the signer failed):
\* the catch block of the start handler
presignRejected(s, i, e) ==
    /\ i \in DOMAIN pending[s]
    /\ credentials \/ e = MissingCredentials
    /\ ~credentials \/ e \in SigningErrors
    /\ pending' = [pending EXCEPT ![s] = Remove(@, i)]
    /\ emitted' = <<ErrorEvent(ErrorText(e))>>
    /\ started' = [started EXCEPT ![s] = FALSE]
    /\ ws' = [ws EXCEPT ![s] = 0]
    /\ last' = [op |-> "presignRejected", s |-> s]
    /\ UNCHANGED <<sockets, connected, credentials, conns, quota, received, transcripts>>

(* -------------------------- upstream callbacks ------------------------ *)
\* ws.on("open")
wsOpen(s, c) ==
    /\ c \in DOMAIN conns[s]
    /\ conns[s][c].readyState = "CONNECTING"
    /\ conns' = [conns EXCEPT ![s][c].readyState = "OPEN"]
    /\ emitted' = <<StatusStreaming>>
    /\ last' = [op |-> "open", s |-> s, c |-> c, owned |-> ws[s] = c]
    /\ UNCHANGED <<sockets, connected, credentials, started, ws, pending, quota,
                   received, transcripts>>

\* the text of an upstream exception without the event type
ExceptionText_NoEventType(eventType, errTxt) == <<"Transcribe exception: ", errTxt>>

\* the text of an upstream exception reported to the client
ExceptionText(eventType, errTxt) ==
    <<"Transcribe exception: ", Or(eventType, Str("Unknown")).v, " ", errTxt>>

Reverse(seq) == [k \in DOMAIN seq |-> seq[Len(seq) + 1 - k]]

\* the message handler emitting the segments of a message last first
OnMessage_Reversed(data) ==
    LET m == unmarshall(data)
        messageType == HeaderValue(m.headers, ":message-type")
        eventType == HeaderValue(m.headers, ":event-type")
    IN IF m.threw THEN <<>>
       ELSE IF messageType = Str("event") /\ eventType = Str("TranscriptEvent")
       THEN LET parts == extractTranscriptParts(parseJsonBody(m.body))
            IN IF parts.threw THEN <<>>
               ELSE Reverse([k \in DOMAIN parts.out |-> TranscriptEvent(parts.out[k])])
       ELSE IF messageType = Str("exception")
       THEN <<ErrorEvent(ExceptionText(eventType, m.body))>>
       ELSE <<>>

\* the message handler without its try/catch: what it would report to the
\* client if a decoding failure were an error like the others
OnMessage_ReportsNoise(data) ==
    LET m == unmarshall(data)
        messageType == HeaderValue(m.headers, ":message-type")
        eventType == HeaderValue(m.headers, ":event-type")
    IN IF m.threw THEN <<ErrorEvent(<<"decode">>)>>
       ELSE IF messageType = Str("event") /\ eventType = Str("TranscriptEvent")
       THEN LET parts == extractTranscriptParts(parseJsonBody(m.body))
            IN IF parts.threw THEN <<>>
               ELSE [k \in DOMAIN parts.out |-> TranscriptEvent(parts.out[k])]
       ELSE IF messageType = Str("exception")
       THEN <<ErrorEvent(ExceptionText(eventType, m.body))>>
       ELSE <<>>

\* the body of ws.on("message"): the events it emits for the data, in order
OnMessage(data) ==
    LET m == unmarshall(data)
        messageType == HeaderValue(m.headers, ":message-type")
        eventType == HeaderValue(m.headers, ":event-type")
    IN IF m.threw THEN <<>>
       ELSE IF messageType = Str("event") /\ eventType = Str("TranscriptEvent")
       THEN LET parts == extractTranscriptParts(parseJsonBody(m.body))
            IN IF parts.threw THEN <<>>
               ELSE [k \in DOMAIN parts.out |-> TranscriptEvent(parts.out[k])]
       ELSE IF messageType = Str("exception")
       THEN <<ErrorEvent(ExceptionText(eventType, m.body))>>
       ELSE <<>>

\* ws.on("message"): the connection delivers data while it is open, and while
\* it is closing after a close the program asked for
wsMessage(s, c, data) ==
    /\ c \in DOMAIN conns[s]
    /\ \/ conns[s][c].readyState = "OPEN"
       \/ conns[s][c].readyState = "CLOSING" /\ ~conns[s][c].failed
    /\ quota[s].msgs > 0
    /\ quota' = [quota EXCEPT ![s].msgs = @ - 1]
    /\ emitted' = OnMessage(data)
    /\ IF quota[s].log
       THEN /\ received' = [received EXCEPT ![s] = Append(@, data)]
            /\ transcripts' = [transcripts EXCEPT ![s] =
                   @ \o SelectSeq(OnMessage(data), LAMBDA e : e.ev = "transcript")]
       ELSE UNCHANGED <<received, transcripts>>
    /\ last' = [op |-> "message", s |-> s, c |-> c, owned |-> ws[s] = c, data |-> data]
    /\ UNCHANGED <<sockets, connected, credentials, started, ws, conns, pending>>

\* reason?.toString?.() || ""
ReasonText(reason) == IF Nullish(reason) THEN "" ELSE reason.v

\* ws.on("close") without `ws = null`
wsClosed_KeepsWs(s, c, code, reason) ==
    /\ c \in DOMAIN conns[s]
    /\ conns[s][c].readyState \in {"OPEN", "CLOSING"}
    /\ conns' = [conns EXCEPT ![s][c].readyState = "CLOSED"]
    /\ emitted' = <<StatusEnded(code, ReasonText(reason))>>
    /\ started' = [started EXCEPT ![s] = FALSE]
    /\ last' = [op |-> "close", s |-> s, c |-> c, code |-> code, reason |-> reason,
                owned |-> ws[s] = c]
    /\ UNCHANGED <<sockets, connected, credentials, ws, pending, quota, received,
                   transcripts>>

\* ws.on("close")
wsClosed(s, c, code, reason) ==
    /\ c \in DOMAIN conns[s]
    /\ conns[s][c].readyState \in {"OPEN", "CLOSING"}
    /\ conns' = [conns EXCEPT ![s][c].readyState = "CLOSED"]
    /\ emitted' = <<StatusEnded(code, ReasonText(reason))>>
    /\ started' = [started EXCEPT ![s] = FALSE]
    /\ ws' = [ws EXCEPT ![s] = 0]
    /\ last' = [op |-> "close", s |-> s, c |-> c, code |-> code, reason |-> reason,
                owned |-> ws[s] = c]
    /\ UNCHANGED <<sockets, connected, credentials, pending, quota, received,
                   transcripts>>

\* ws.on("error") on an open connection: the connection is torn down, its
\* "close" follows later
wsError(s, c, e) ==
    /\ c \in DOMAIN conns[s]
    /\ conns[s][c].readyState = "OPEN"
    /\ conns' = [conns EXCEPT ![s][c].readyState = "CLOSING", ![s][c].failed = TRUE]
    /\ emitted' = <<ErrorEvent(ErrorText(e))>>
    /\ started' = [started EXCEPT ![s] = FALSE]
    /\ ws' = [ws EXCEPT ![s] = 0]
    /\ last' = [op |-> "error", s |-> s, c |-> c, owned |-> ws[s] = c]
    /\ UNCHANGED <<sockets, connected, credentials, pending, quota, received,
                   transcripts>>

\* the connection could not be opened: ws.on("error") and then ws.on("close")
\* run back to back, the close with the abnormal code 1006 and no reason
wsConnectFailed(s, c, e) ==
    /\ c \in DOMAIN conns[s]
    /\ conns[s][c].readyState = "CONNECTING"
    /\ conns' = [conns EXCEPT ![s][c].readyState = "CLOSED", ![s][c].failed = TRUE]
    /\ emitted' = <<ErrorEvent(ErrorText(e)), StatusEnded(1006, "")>>
    /\ started' = [started EXCEPT ![s] = FALSE]
    /\ ws' = [ws EXCEPT ![s] = 0]
    /\ last' = [op |-> "connectFailed", s |-> s, c |-> c, owned |-> ws[s] = c]
    /\ UNCHANGED <<sockets, connected, credentials, pending, quota, received,
                   transcripts>>

(* ------------------------------- Next --------------------------------- *)
\* the "status" events among the socket.emit calls of a handler
StatusEvents(es) == SelectSeq(es, LAMBDA e : e.ev = "status")

\* the history of the status events: the handler that just ran for s emitted
\* emitted', and its last "status" event, if any, is the latest one of s
Track(s) ==
    lastStatus' =
        IF quota[s].statuses /\ StatusEvents(emitted') # <<>>
        THEN [lastStatus EXCEPT ![s] = StatusEvents(emitted')[Len(StatusEvents(emitted'))].state]
        ELSE lastStatus

Next ==
    \/ \E s \in sockets : \E msg \in StartMsgs : start(s, msg) /\ Track(s)
    \/ \E s \in sockets : \E msg \in AudioInputs(s) : audio(s, msg) /\ Track(s)
    \/ \E s \in sockets : stop(s) /\ Track(s)
    \/ \E s \in sockets : disconnect(s) /\ Track(s)
    \/ \E s \in sockets : \E i \in 1..Len(pending[s]) : presignResolved(s, i) /\ Track(s)
    \/ \E s \in sockets : \E i \in 1..Len(pending[s]) :
          \E e \in SigningErrors \cup {MissingCredentials} :
              presignRejected(s, i, e) /\ Track(s)
    \/ \E s \in sockets : \E c \in 1..Len(conns[s]) : wsOpen(s, c) /\ Track(s)
    \/ \E s \in sockets : \E c \in 1..Len(conns[s]) :
          \E data \in Inbound : wsMessage(s, c, data) /\ Track(s)
    \/ \E s \in sockets : \E c \in 1..Len(conns[s]) :
          \E cl \in Closes : wsClosed(s, c, cl.code, cl.reason) /\ Track(s)
    \/ \E s \in sockets : \E c \in 1..Len(conns[s]) :
          \E e \in SocketErrors : wsError(s, c, e) /\ Track(s)
    \/ \E s \in sockets : \E c \in 1..Len(conns[s]) :
          \E e \in SocketErrors : wsConnectFailed(s, c, e) /\ Track(s)

\* one client session through several start attempts
Spec == Init /\ [][Next]_vars

\* one client session relaying several upstream messages after one start,
\* the messages received and the transcripts emitted being recorded
RelayQuota ==
    [starts |-> 1, msgs |-> RelayMsgs, audio |-> 1, log |-> TRUE, statuses |-> TRUE,
     chunks |-> {"AAAA"}]

InitRelay == InitSessions({1}, RelayQuota)

SpecRelay == InitRelay /\ [][Next]_vars

\* one client session sending several audio chunks after one start
AudioQuota ==
    [starts |-> 1, msgs |-> 1, audio |-> AudioChunks, log |-> FALSE, statuses |-> FALSE,
     chunks |-> {"AAAA", "AQID"}]

InitAudio == InitSessions({1}, AudioQuota)

SpecAudio == InitAudio /\ [][Next]_vars

\* two client sessions side by side, one start each, the latest status recorded
PairQuota ==
    [starts |-> 1, msgs |-> 1, audio |-> 1, log |-> FALSE, statuses |-> TRUE,
     chunks |-> {"AAAA"}]

InitPair == InitSessions({1, 2}, PairQuota)

SpecPair == InitPair /\ [][Next]_vars

(* ------------- a session that is neither stopped nor left ------------- *)
\* a signing that is in flight resolves or fails
SigningSettles ==
    \E s \in sockets : \E i \in 1..Len(pending[s]) :
        \/ presignResolved(s, i) /\ Track(s)
        \/ \E e \in SigningErrors \cup {MissingCredentials} :
              presignRejected(s, i, e) /\ Track(s)

\* a connection attempt opens or fails
ConnectSettles ==
    \E s \in sockets : \E c \in 1..Len(conns[s]) :
        \/ wsOpen(s, c) /\ Track(s)
        \/ \E e \in SocketErrors : wsConnectFailed(s, c, e) /\ Track(s)

\* a connection that is closing is closed
CloseSettles ==
    \E s \in sockets : \E c \in 1..Len(conns[s]) :
        /\ conns[s][c].readyState = "CLOSING"
        /\ \E cl \in Closes : wsClosed(s, c, cl.code, cl.reason) /\ Track(s)

\* the handlers without stop and disconnect
NextLive ==
    \/ \E s \in sockets : \E msg \in StartMsgs : start(s, msg) /\ Track(s)
    \/ \E s \in sockets : \E msg \in AudioInputs(s) : audio(s, msg) /\ Track(s)
    \/ \E s \in sockets : \E i \in 1..Len(pending[s]) : presignResolved(s, i) /\ Track(s)
    \/ \E s \in sockets : \E i \in 1..Len(pending[s]) :
          \E e \in SigningErrors \cup {MissingCredentials} :
              presignRejected(s, i, e) /\ Track(s)
    \/ \E s \in sockets : \E c \in 1..Len(conns[s]) : wsOpen(s, c) /\ Track(s)
    \/ \E s \in sockets : \E c \in 1..Len(conns[s]) :
          \E data \in Inbound : wsMessage(s, c, data) /\ Track(s)
    \/ \E s \in sockets : \E c \in 1..Len(conns[s]) :
          \E cl \in Closes : wsClosed(s, c, cl.code, cl.reason) /\ Track(s)
    \/ \E s \in sockets : \E c \in 1..Len(conns[s]) :
          \E e \in SocketErrors : wsError(s, c, e) /\ Track(s)
    \/ \E s \in sockets : \E c \in 1..Len(conns[s]) :
          \E e \in SocketErrors : wsConnectFailed(s, c, e) /\ Track(s)

\* the client neither stops nor disconnects; every signing in flight settles,
\* every connection attempt settles, every closing connection is closed
SpecLive ==
    /\ Init
    /\ [][NextLive]_vars
    /\ WF_vars(SigningSettles)
    /\ WF_vars(ConnectSettles)
    /\ WF_vars(CloseSettles)

(* ---------------- extractTranscriptParts on its own ------------------- *)
\* entries of a Transcript.Results list: with and without the optional fields,
\* with empty text, without alternatives, null, and a number
ResultEntries ==
    {BareResult("a"), Result("b", Bool(TRUE), Num(0), Num(1)), BareResult(""),
     Obj([Alternatives |-> Arr(<<>>)]), NULL, Num(5)}

\* the parsed payloads given to extractTranscriptParts
ExtractInputs ==
    {TranscriptJson(Arr(rs)) : rs \in UNION {[1..n -> ResultEntries] : n \in 0..MaxResults}}
    \cup {TranscriptJson(Num(7)), TranscriptJson(Str("ab")), TranscriptJson(NULL),
          TranscriptJson(Bool(TRUE)), Obj([Transcript |-> Obj([x |-> Num(1)])]),
          Obj([x |-> Num(1)]), NULL}

\* a parsed payload, before extractTranscriptParts is called on it
InitExtract ==
    /\ sockets = {}
    /\ connected = <<>>
    /\ credentials = TRUE
    /\ started = <<>>
    /\ ws = <<>>
    /\ conns = <<>>
    /\ pending = <<>>
    /\ quota = <<>>
    /\ received = <<>>
    /\ transcripts = <<>>
    /\ lastStatus = <<>>
    /\ emitted = <<>>
    /\ \E json \in ExtractInputs : last = [op |-> "json", json |-> json]

\* the call extractTranscriptParts(json)
extract ==
    /\ last.op = "json"
    /\ last' = [op |-> "extractTranscriptParts", json |-> last.json,
                result |-> extractTranscriptParts(last.json)]
    /\ UNCHANGED <<sockets, connected, credentials, started, ws, conns, pending,
                   quota, received, transcripts, emitted, lastStatus>>

NextExtract == extract

SpecExtract == InitExtract /\ [][NextExtract]_vars

(* -------------------- buildQueryString on its own --------------------- *)
\* A string of a query is the sequence of its UTF-16 code units (ASCII here).
Text(codes) == [t |-> "string", v |-> codes]

RECURSIVE CodeLess(_, _)
\* a < b on strings: by code units, a proper prefix first
CodeLess(a, b) ==
    IF b = <<>> THEN FALSE
    ELSE IF a = <<>> THEN TRUE
    ELSE IF Head(a) # Head(b) THEN Head(a) < Head(b)
    ELSE CodeLess(Tail(a), Tail(b))

RECURSIVE SortStrings(_)
\* Array.prototype.sort() with no comparator, on an array of strings
SortStrings(strs) ==
    IF strs = <<>> THEN <<>>
    ELSE LET i == CHOOSE i \in DOMAIN strs :
                    \A j \in DOMAIN strs :
                        ~CodeLess(strs[j], strs[i]) /\ (strs[j] = strs[i] => i <= j)
         IN <<strs[i]>> \o SortStrings(Remove(strs, i))

RECURSIVE SortedKeys(_)
\* Object.keys(o).sort(): the keys of the object, sorted as strings
SortedKeys(keys) ==
    IF keys = {} THEN <<>>
    ELSE LET k == CHOOSE k \in keys : \A j \in keys : ~CodeLess(j, k)
         IN <<k>> \o SortedKeys(keys \ {k})

RECURSIVE Digits(_)
\* the decimal digits of a natural number, as code units
Digits(n) == IF n < 10 THEN <<48 + n>> ELSE Digits(n \div 10) \o <<48 + (n % 10)>>

\* String(x)
String(x) ==
    CASE x.t = "string" -> x.v
      [] x.t = "number" -> Digits(x.v)
      [] x.t = "null" -> <<110, 117, 108, 108>>
      [] x.t = "undefined" -> <<117, 110, 100, 101, 102, 105, 110, 101, 100>>

\* one upper-case hexadecimal digit, as a code unit
HexDigit(n) == IF n < 10 THEN 48 + n ELSE 55 + n

\* c.toString(16).toUpperCase() for a code unit c
HexUpper(c) ==
    IF c < 16 THEN <<HexDigit(c)>> ELSE <<HexDigit(c \div 16), HexDigit(c % 16)>>

\* the code units encodeURIComponent leaves alone: A-Z a-z 0-9 - _ . ! ~ * ' ( )
UriUnescaped ==
    (65..90) \cup (97..122) \cup (48..57) \cup {45, 95, 46, 33, 126, 42, 39, 40, 41}

RECURSIVE encodeURIComponent(_)
\* encodeURIComponent on an ASCII string: %XX for every other code unit
encodeURIComponent(str) ==
    IF str = <<>> THEN <<>>
    ELSE (IF Head(str) \in UriUnescaped THEN <<Head(str)>>
          ELSE <<37, HexDigit(Head(str) \div 16), HexDigit(Head(str) % 16)>>)
            \o encodeURIComponent(Tail(str))

RECURSIVE ReplaceReserved(_)
\* .replace(/[!'()*]/g, c => '%' + c.charCodeAt(0).toString(16).toUpperCase())
ReplaceReserved(str) ==
    IF str = <<>> THEN <<>>
    ELSE (IF Head(str) \in {33, 39, 40, 41, 42} THEN <<37>> \o HexUpper(Head(str))
          ELSE <<Head(str)>>)
            \o ReplaceReserved(Tail(str))

encodeRFC3986(str) == ReplaceReserved(encodeURIComponent(str))

\* `${encodeRFC3986(k)}=${encodeRFC3986(v)}`
QueryPair(k, v) == encodeRFC3986(k) \o <<61>> \o encodeRFC3986(v)

\* the pairs pushed for key k of the query
PairsOfKey(query, k) ==
    LET v == query[k]
    IN IF v.t \in {"undefined", "null"} THEN <<>>
       ELSE IF v.t = "array"
       THEN LET vals == SortStrings([i \in DOMAIN v.v |-> String(v.v[i])])
            IN [i \in DOMAIN vals |-> QueryPair(k, vals[i])]
       ELSE <<QueryPair(k, String(v))>>

RECURSIVE PairsOfKeys(_, _)
\* the loop over the sorted keys
PairsOfKeys(query, keys) ==
    IF keys = <<>> THEN <<>>
    ELSE PairsOfKey(query, Head(keys)) \o PairsOfKeys(query, Tail(keys))

RECURSIVE Join(_, _)
\* pairs.join(sep)
Join(pairs, sep) ==
    IF pairs = <<>> THEN <<>>
    ELSE IF Len(pairs) = 1 THEN pairs[1]
    ELSE pairs[1] \o sep \o Join(Tail(pairs), sep)

\* buildQueryString(query): query is null, undefined or an object, whose
\* properties are given as a function from its keys
buildQueryString(query) ==
    LET q == IF query.t = "object" THEN query.v ELSE <<>>
    IN Join(PairsOfKeys(q, SortedKeys(DOMAIN q)), <<38>>)

\* keys of the queries: "a" and "{"
QueryKeys == {<<97>>, <<123>>}

\* values inside an array: "a", "{", "a!" and the number 16
QueryAtoms == {Text(<<97>>), Text(<<123>>), Text(<<97, 33>>), Num(16)}

\* values of a key: undefined, null, a string or number, an array of them
QueryValues ==
    {UNDEF, NULL} \cup QueryAtoms
        \cup {Arr(vs) : vs \in UNION {[1..n -> QueryAtoms] : n \in 0..MaxVals}}

\* the arguments of buildQueryString
QueryInputs ==
    {NULL, UNDEF}
        \cup {Obj(q) : q \in UNION {[K -> QueryValues] : K \in (SUBSET QueryKeys) \ {{}}}}

\* a query, before buildQueryString is called on it
InitQuery ==
    /\ sockets = {}
    /\ connected = <<>>
    /\ credentials = TRUE
    /\ started = <<>>
    /\ ws = <<>>
    /\ conns = <<>>
    /\ pending = <<>>
    /\ quota = <<>>
    /\ received = <<>>
    /\ transcripts = <<>>
    /\ lastStatus = <<>>
    /\ emitted = <<>>
    /\ \E query \in QueryInputs : last = [op |-> "query", query |-> query]

\* the call buildQueryString(query)
callBuildQueryString ==
    /\ last.op = "query"
    /\ last' = [op |-> "buildQueryString", query |-> last.query,
                qs |-> buildQueryString(last.query)]
    /\ UNCHANGED <<sockets, connected, credentials, started, ws, conns, pending,
                   quota, received, transcripts, emitted, lastStatus>>

NextQuery == callBuildQueryString

SpecQuery == InitQuery /\ [][NextQuery]_vars

(* ======================= properties of the session ===================== *)
\* the connections of session s that are connecting or open (a connection on
\* which a close was requested is CLOSING or CLOSED)
Live(s) == {c \in DOMAIN conns[s] : conns[s][c].readyState \in {"CONNECTING", "OPEN"}}

\* the session is Starting or Streaming by its own flag
Active(s) == started[s]

\* the handler that ran last ran for session s and event op
Ran(op, s) == last.op = op /\ last.s = s

\* C1: a session never has two upstream connections that are connecting or
\* open with no close requested, counting the ones whose reference it dropped.
C1_OneLiveConnection == \A s \in sockets : Cardinality(Live(s)) <= 1

\* C2: the started flag is set by an accepted start and cleared only by a stop,
\* an upstream close or an error, and a start command that finds it set is a
\* silent no-op: no signing attempt, no connection, no client event, the flag
\* and the connection reference unchanged.
C2_DuplicateStartIsNoOp ==
    [][\A s \in sockets :
          /\ (started[s] /\ ~started'[s]) =>
                /\ last'.s = s
                /\ last'.op \in {"stop", "close", "error", "connectFailed",
                                  "presignRejected"}
          /\ (~started[s] /\ started'[s]) => (Ran("start", s))' /\ last'.accepted
          /\ (Active(s) /\ \E msg \in StartMsgs : start(s, msg)) =>
                /\ emitted' = <<>>
                /\ pending' = pending
                /\ conns' = conns
                /\ started' = started
                /\ ws' = ws
                /\ quota' = quota]_vars

\* a duplicate start arrived while the session was streaming on an open connection
C2_Witness ==
    /\ last.op = "start"
    /\ ~last.accepted
    /\ started[last.s]
    /\ IsOpen(last.s)

\* C3: an audio command sends a frame, emits an event or changes state only
\* while the session is Streaming (started, and its connection open) and the
\* chunk is present and non-empty.
C3_AudioOnlyWhileStreaming ==
    [][\A s \in sockets : \A msg \in AudioMsgs :
          (audio(s, msg) /\ (~(started[s] /\ IsOpen(s)) \/ ~Truthy(msg.chunkBase64))) =>
              /\ conns' = conns
              /\ emitted' = <<>>
              /\ started' = started
              /\ ws' = ws]_vars

\* C4: stop emits status "stopping", clears started and drops the connection
\* reference in the same step; it requests closure with 1000 "client stop" on
\* the owned connection exactly when that connection is open, and does not
\* wait for the connection to be closed.
C4_StopResetsAtOnce ==
    [][\A s \in sockets :
          stop(s) =>
              /\ emitted' = <<StatusStopping>>
              /\ ~started'[s]
              /\ ws'[s] = 0
              /\ IF ws[s] # 0 /\ conns[s][ws[s]].readyState = "OPEN"
                 THEN conns' = [conns EXCEPT ![s][ws[s]] =
                                   [@ EXCEPT !.readyState = "CLOSING",
                                             !.closeCode = CloseStop,
                                             !.closeReason = "client stop"]]
                 ELSE conns' = conns]_vars

\* a stop found the connection open: the close is requested and still under way
C4_Witness ==
    /\ last.op = "stop"
    /\ ~started[last.s]
    /\ ws[last.s] = 0
    /\ \E c \in DOMAIN conns[last.s] :
          /\ conns[last.s][c].readyState = "CLOSING"
          /\ conns[last.s][c].closeCode = CloseStop

\* the number of events of kind ev among the events es
Count(es, ev) == Cardinality({k \in DOMAIN es : es[k].ev = ev})

\* the status notifications among the events es
Statuses(es) == {k \in DOMAIN es : es[k].ev = "status"}

FailureOps == {"presignRejected", "connectFailed"}

\* C5: a failed start attempt (missing credential, signing failure, the
\* connection failing to open) emits exactly one "error" event and leaves
\* started false and no connection reference; a start command that follows is
\* accepted and begins a new signing attempt.
C5_FailedStartResets ==
    [][\A s \in sockets :
          /\ (last'.op \in FailureOps /\ last'.s = s) =>
                /\ Count(emitted', "error") = 1
                /\ ~started'[s]
                /\ ws'[s] = 0
          /\ (last'.op = "presignRejected" /\ last'.s = s /\ ~credentials) =>
                emitted' = <<ErrorEvent(<<MissingCredentials>>)>>
          /\ (last.op \in FailureOps /\ last.s = s /\ \E msg \in StartMsgs : start(s, msg)) =>
                /\ last'.accepted
                /\ started'[s]
                /\ Len(pending'[s]) = Len(pending[s]) + 1]_vars

\* a start was accepted again after a missing-credential failure
C5_Witness ==
    /\ ~credentials
    /\ last.op = "start"
    /\ last.accepted
    /\ quota[last.s].starts = MaxStarts - 2
    /\ Len(pending[last.s]) = 1

\* C6: when the connection a started session refers to closes while open, the
\* session emits exactly one status "ended" with the close code and reason and
\* is left with started false and no connection reference.
C6_CloseResets ==
    [][\A s \in sockets :
          (/\ last'.op = "close"
           /\ last'.s = s
           /\ started[s]
           /\ ws[s] = last'.c
           /\ conns[s][last'.c].readyState = "OPEN") =>
              /\ emitted' = <<[ev |-> "status", state |-> "ended", code |-> last'.code,
                               reason |-> IF last'.reason.t = "string"
                                          THEN last'.reason.v ELSE ""]>>
              /\ ~started'[s]
              /\ ws'[s] = 0
              /\ conns'[s][last'.c].readyState = "CLOSED"]_vars

\* the owned connection closed with a reason and the session is idle again
C6_Witness ==
    /\ last.op = "close"
    /\ last.owned
    /\ conns[last.s][last.c].closeCode = 0
    /\ ~conns[last.s][last.c].failed
    /\ emitted = <<StatusEnded(CloseStop, "bye")>>
    /\ ~started[last.s]
    /\ ws[last.s] = 0

\* the message delivered by the step that just ran
Delivered(s) == last.data

\* the value of a header of a well-formed frame, "" when it is absent
Classify(data, name) ==
    IF \E k \in DOMAIN data.headers : data.headers[k].name = name
    THEN (CHOOSE h \in {data.headers[k] : k \in DOMAIN data.headers} : h.name = name).value
    ELSE ""

IsException(data) == data.wire = "frame" /\ Classify(data, ":message-type") = "exception"

IsTranscript(data) ==
    /\ data.wire = "frame"
    /\ Classify(data, ":message-type") = "event"
    /\ Classify(data, ":event-type") = "TranscriptEvent"

\* a frame that does not decode, a TranscriptEvent whose payload is not JSON, or
\* a frame that is neither a TranscriptEvent nor an exception
IsNoise(data) ==
    \/ data.wire # "frame"
    \/ IsTranscript(data) /\ JsonParse(data.body).threw
    \/ ~IsTranscript(data) /\ ~IsException(data)

Contains(message, txt) == \E k \in DOMAIN message : message[k] = txt

\* C7: an upstream frame of message type "exception" produces exactly one
\* "error" event whose message holds the event type (when the frame has one)
\* and the payload text; started, the connection reference and the connections
\* are unchanged.
C7_ExceptionForwarded ==
    [][\A s \in sockets :
          ((Ran("message", s))' /\ IsException(Delivered(s)')) =>
              /\ Len(emitted') = 1
              /\ emitted'[1].ev = "error"
              /\ Contains(emitted'[1].message, Delivered(s)'.body)
              /\ Contains(emitted'[1].message,
                          IF Classify(Delivered(s)', ":event-type") = ""
                          THEN "Unknown" ELSE Classify(Delivered(s)', ":event-type"))
              /\ started' = started
              /\ ws' = ws
              /\ conns' = conns]_vars

\* scenario C arrived on the owned connection of a started session
C7_Witness ==
    /\ last.op = "message"
    /\ last.owned
    /\ started[last.s]
    /\ IsOpen(last.s)
    /\ Delivered(last.s) = InboundFrame("exception", "BadRequestException",
                                        "invalid sample rate")
    /\ Contains(emitted[1].message, "BadRequestException")
    /\ Contains(emitted[1].message, "invalid sample rate")

\* C8: an upstream message that does not decode, whose TranscriptEvent payload
\* is not JSON, or that is neither a TranscriptEvent nor an exception, emits
\* nothing and changes neither started, the connection reference nor any
\* connection, so the messages after it are still relayed.
C8_NoiseIgnored ==
    [][\A s \in sockets :
          ((Ran("message", s))' /\ IsNoise(Delivered(s)')) =>
              /\ emitted' = <<>>
              /\ transcripts' = transcripts
              /\ started' = started
              /\ ws' = ws
              /\ conns' = conns]_vars

\* a message that does not decode was followed by a transcript that was relayed
C8_Witness ==
    /\ last.op = "message"
    /\ Len(received[last.s]) = 2
    /\ received[last.s][1].wire = "garbage"
    /\ IsTranscript(received[last.s][2])
    /\ Len(emitted) = 2
    /\ started[last.s]
    /\ IsOpen(last.s)

\* the segments extracted from one upstream message
Segments(data) ==
    IF IsTranscript(data)
    THEN LET parts == extractTranscriptParts(parseJsonBody(data.body))
         IN IF parts.threw THEN <<>> ELSE parts.out
    ELSE <<>>

RECURSIVE AllSegments(_)
AllSegments(frames) ==
    IF frames = <<>> THEN <<>>
    ELSE Segments(Head(frames)) \o AllSegments(Tail(frames))

\* C9: the "transcript" events emitted so far are the segments of the
\* TranscriptEvent frames received so far, frame by frame in arrival order and
\* within a frame in extraction order, each exactly once.
C9_TranscriptsInOrder ==
    \A s \in sockets :
        /\ Len(transcripts[s]) = Len(AllSegments(received[s]))
        /\ \A k \in DOMAIN transcripts[s] :
              transcripts[s][k] = [ev |-> "transcript", part |-> AllSegments(received[s])[k]]

\* two different transcript frames were relayed, four segments in all
C9_Witness ==
    /\ last.op = "message"
    /\ Len(received[last.s]) = 2
    /\ received[last.s][1] = InboundFrame("event", "TranscriptEvent", "empty-text-between")
    /\ received[last.s][2] = InboundFrame("event", "TranscriptEvent", "two-results")
    /\ Len(transcripts[last.s]) = 4
    /\ transcripts[last.s][4].part.text = Str("world")
    /\ Len(emitted) = 2

\* the effect of disconnect on the connections: 1001 "client disconnect" on
\* the connection the session refers to exactly when it is open
DisconnectCloses(s) ==
    IF ws[s] # 0 /\ conns[s][ws[s]].readyState = "OPEN"
    THEN conns' = [conns EXCEPT ![s][ws[s]] =
                      [@ EXCEPT !.readyState = "CLOSING",
                                !.closeCode = CloseDisconnect,
                                !.closeReason = "client disconnect"]]
    ELSE conns' = conns

ChunkBytes(b64) ==
    CASE b64 = "AAAA" -> <<0, 0, 0>>
      [] b64 = "AQID" -> <<1, 2, 3>>

\* the headers of an AudioEvent frame, as name and value
AudioHeaders ==
    {<<":message-type", "event">>, <<":event-type", "AudioEvent">>,
     <<":content-type", "application/octet-stream">>}

\* frame is an AudioEvent frame with exactly the three headers and these bytes
IsAudioFrame(frame, bytes) ==
    /\ frame.wire = "frame"
    /\ frame.body = bytes
    /\ Len(frame.headers) = 3
    /\ {<<frame.headers[k].name, frame.headers[k].value>> : k \in DOMAIN frame.headers}
          = AudioHeaders
    /\ \A k \in DOMAIN frame.headers : frame.headers[k].type = "string"

\* C11: an audio command with a decodable non-empty chunk, received while the
\* session is started and its connection open, appends exactly one frame to
\* what was sent on the owned connection, in the same step: the frame carries
\* the decoded bytes and exactly the three AudioEvent headers, and nothing
\* else is sent or emitted.
C11_OneFramePerChunk ==
    [][\A s \in sockets : \A msg \in AudioMsgs :
          (/\ audio(s, msg)
           /\ started[s]
           /\ IsOpen(s)
           /\ msg.chunkBase64.t = "string"
           /\ msg.chunkBase64.v # "") =>
              /\ emitted' = <<>>
              /\ Len(conns'[s][ws[s]].sent) = Len(conns[s][ws[s]].sent) + 1
              /\ SubSeq(conns'[s][ws[s]].sent, 1, Len(conns[s][ws[s]].sent))
                    = conns[s][ws[s]].sent
              /\ IsAudioFrame(conns'[s][ws[s]].sent[Len(conns'[s][ws[s]].sent)],
                              ChunkBytes(msg.chunkBase64.v))
              /\ \A c \in DOMAIN conns[s] : c # ws[s] => conns'[s][c] = conns[s][c]
              /\ conns'[s][ws[s]].readyState = "OPEN"]_vars

\* scenario B and then a second chunk: two frames upstream, in command order
C11_Witness ==
    /\ last.op = "audio"
    /\ last.outcome = "sent"
    /\ started[last.s]
    /\ IsOpen(last.s)
    /\ Len(conns[last.s][ws[last.s]].sent) = 2
    /\ conns[last.s][ws[last.s]].sent[1].body = <<0, 0, 0>>
    /\ conns[last.s][ws[last.s]].sent[2].body = <<1, 2, 3>>

\* C12: when the chunk of an audio command cannot be decoded or framed while
\* the session is streaming, the session emits exactly one "error" event with
\* message "Bad audio chunk"; started, the connection reference and the
\* connections (nothing sent, nothing closed) are unchanged.
C12_BadChunkNonFatal ==
    [][\A s \in sockets : \A msg \in AudioMsgs :
          (/\ audio(s, msg)
           /\ IsOpen(s)
           /\ Truthy(msg.chunkBase64)
           /\ msg.chunkBase64.t # "string") =>
              /\ emitted' = <<[ev |-> "error", message |-> <<"Bad audio chunk">>]>>
              /\ started' = started
              /\ ws' = ws
              /\ conns' = conns]_vars

\* a chunk that is no string arrived while streaming: one error, still streaming
C12_Witness ==
    /\ last.op = "audio"
    /\ last.outcome = "bad"
    /\ started[last.s]
    /\ IsOpen(last.s)
    /\ emitted = <<ErrorEvent(<<"Bad audio chunk">>)>>

\* the Transcript.Results value of a payload, UNDEF when it has none
ResultsOf(json) ==
    IF json.t = "object" /\ "Transcript" \in DOMAIN json.v
          /\ json.v.Transcript.t = "object" /\ "Results" \in DOMAIN json.v.Transcript.v
    THEN json.v.Transcript.v.Results
    ELSE UNDEF

\* a results list: an array whose entries are all objects
WellFormedResults(results) ==
    /\ results.t = "array"
    /\ \A k \in DOMAIN results.v : results.v[k].t = "object"

\* the text of the first alternative of a result entry, "" when it has none
FirstText(r) ==
    IF /\ "Alternatives" \in DOMAIN r.v
       /\ r.v.Alternatives.t = "array"
       /\ Len(r.v.Alternatives.v) > 0
       /\ r.v.Alternatives.v[1].t = "object"
       /\ "Transcript" \in DOMAIN r.v.Alternatives.v[1].v
       /\ r.v.Alternatives.v[1].v.Transcript.t = "string"
    THEN r.v.Alternatives.v[1].v.Transcript.v
    ELSE ""

RECURSIVE NonEmptyTexts(_)
\* the non-empty first-alternative texts of the entries, in their order
NonEmptyTexts(entries) ==
    IF entries = <<>> THEN <<>>
    ELSE (IF FirstText(Head(entries)) = "" THEN <<>> ELSE <<FirstText(Head(entries))>>)
            \o NonEmptyTexts(Tail(entries))

\* C13: extractTranscriptParts never raises; on a list of result objects it
\* returns one segment per entry with non-empty first-alternative text, in the
\* original order; on a missing or malformed results list (absent, not a list,
\* or with null or non-object entries) it returns the empty sequence.
C13_ExtractTotal ==
    last.op = "extractTranscriptParts" =>
        /\ ~last.result.threw
        /\ IF WellFormedResults(ResultsOf(last.json))
           THEN /\ Len(last.result.out) = Len(NonEmptyTexts(ResultsOf(last.json).v))
                /\ \A k \in DOMAIN last.result.out :
                      last.result.out[k].text.v = NonEmptyTexts(ResultsOf(last.json).v)[k]
           ELSE last.result.out = <<>>

RECURSIVE Split(_, _, _)
\* the pieces of a string between the occurrences of a separator
Split(str, sep, piece) ==
    IF str = <<>> THEN <<piece>>
    ELSE IF Head(str) = sep THEN <<piece>> \o Split(Tail(str), sep, <<>>)
    ELSE Split(Tail(str), sep, Append(piece, Head(str)))

\* the key=value pairs of a query string, as [k, v] in their encoded form
PairsIn(qs) ==
    IF qs = <<>> THEN <<>>
    ELSE LET pieces == Split(qs, 38, <<>>)
         IN [i \in DOMAIN pieces |->
                LET kv == Split(pieces[i], 61, <<>>)
                IN [k |-> kv[1], v |-> kv[2]]]

\* the number of pairs a value contributes
PairCount(v) ==
    IF v.t \in {"undefined", "null"} THEN 0 ELSE IF v.t = "array" THEN Len(v.v) ELSE 1

\* C14: in the query string built from a mapping, the keys appear in
\* ascending order, the repeated key=value pairs of an array-valued key appear
\* in ascending order of their percent-encoded values, and a key whose value
\* is null or undefined contributes no pair (every other key contributes one
\* pair per value).
C14_CanonicalOrder ==
    (last.op = "buildQueryString" /\ last.query.t = "object") =>
        LET q == last.query.v
            pairs == PairsIn(last.qs)
        IN /\ \A i, j \in DOMAIN pairs :
                 (i < j /\ pairs[i].k # pairs[j].k) =>
                    \E a, b \in DOMAIN q :
                        /\ encodeRFC3986(a) = pairs[i].k
                        /\ encodeRFC3986(b) = pairs[j].k
                        /\ CodeLess(a, b)
           /\ \A i, j \in DOMAIN pairs :
                 (i < j /\ pairs[i].k = pairs[j].k) => ~CodeLess(pairs[j].v, pairs[i].v)
           /\ \A a \in DOMAIN q :
                 Cardinality({i \in DOMAIN pairs : pairs[i].k = encodeRFC3986(a)})
                    = PairCount(q[a])

\* the events on which the session leaves Starting or Streaming
ExitOps == {"presignRejected", "connectFailed", "stop", "disconnect", "error", "close"}

\* C15: started and the connection reference are cleared together on every
\* exit path: right after a start failure, a stop, a disconnect, an upstream
\* error or an upstream close of a session, started is false and the session
\* holds no connection reference; and in no reachable state does a session
\* hold a connection reference while started is false.
C15_ClearedTogether ==
    \A s \in sockets :
        /\ ws[s] # 0 => started[s]
        /\ (last.op \in ExitOps /\ last.s = s) => (~started[s] /\ ws[s] = 0)

\* C16: a "transcript" event or an "error" event of an upstream exception is
\* emitted by the message handler only while the session is Streaming, that
\* is started with its connection open: none between a stop and the opening
\* of the connection of the next accepted start.
C16_ForwardOnlyWhileStreaming ==
    [][\A s \in sockets :
          (last'.op = "message" /\ last'.s = s /\ emitted' # <<>>) =>
              (started[s] /\ IsOpen(s))]_vars

\* C18: a close or error event of an upstream connection the session does not
\* own (any more) changes neither started nor the connection reference of the
\* session.
C18_StaleEventsIgnored ==
    [][\A s \in sockets :
          (last'.op \in {"close", "error", "connectFailed"} /\ last'.s = s
              /\ ~last'.owned) =>
                 (started'[s] = started[s] /\ ws'[s] = ws[s])]_vars

\* C19: whenever a status "streaming" is emitted to a session, the latest
\* status emitted to it before is "starting" (no "stopping" or "ended" in
\* between) and the session is not Idle: started is true.
C19_StreamingFollowsStarting ==
    [][\A s \in sockets :
          (last'.s = s /\ \E k \in DOMAIN emitted' : emitted'[k] = StatusStreaming) =>
              (lastStatus[s] = "starting" /\ started[s])]_vars

\* C17: a handler run for one session (a client command or an upstream
\* event) leaves every other session as it was: its started flag, its
\* connection reference, its connections, its suspended start handlers, and
\* the events emitted to it (the events of the step go to the session of the
\* step; the other sessions' transcripts and latest status are unchanged).
C17_SessionsIsolated ==
    [][\A s \in sockets : \A t \in sockets \ {s} :
          last'.s = s =>
              /\ started'[t] = started[t]
              /\ ws'[t] = ws[t]
              /\ conns'[t] = conns[t]
              /\ pending'[t] = pending[t]
              /\ connected'[t] = connected[t]
              /\ received'[t] = received[t]
              /\ transcripts'[t] = transcripts[t]
              /\ lastStatus'[t] = lastStatus[t]]_vars

\* one session is stopped while the other one is streaming
C17_Witness ==
    /\ last.op = "stop"
    /\ last.s = 1
    /\ started[2]
    /\ IsOpen(2)
    /\ lastStatus[2] = "streaming"
    /\ ~started[1]

\* a start was just accepted
StartAccepted == last.op = "start" /\ last.accepted

\* status "streaming" was just emitted and the session owns the open connection
NowStreaming ==
    /\ last.op = "open"
    /\ emitted = <<StatusStreaming>>
    /\ ws[last.s] = last.c
    /\ conns[last.s][last.c].readyState = "OPEN"

\* an "error" event was just emitted and the session is Idle
NowFailed ==
    /\ \E k \in DOMAIN emitted : emitted[k].ev = "error"
    /\ ~started[last.s]
    /\ ws[last.s] = 0

\* C20: with no stop and no disconnect, and every signing and every
\* connection attempt settling, every accepted start leads to a state where
\* status "streaming" was emitted and the session owns an open connection, or
\* to a state where an "error" event was emitted and the session is Idle.
C20_StartSettles == StartAccepted ~> (NowStreaming \/ NowFailed)

====
